---- MODULE Spec2Model ----
(***************************************************************************)
(* Competitor Ad Intelligence Hub (src/app.py): the ad pipeline             *)
(*   process_ads -> filter_ads_by_time -> analyze_with_gemini ->            *)
(*   render_ad_results                                                      *)
(* as a state machine.  JSON values are tagged records, Python strings are  *)
(* sequences of one-character strings.                                      *)
(***************************************************************************)
EXTENDS Integers, Sequences, FiniteSets, TLC

VARIABLES
    pc,              \* position in the pipeline
    raw_ads,         \* process_ads: the batch (a sequence of JSON values)
    i,               \* process_ads: index of the next record of the batch
    grouped_ads,     \* process_ads: the dict, as its values in insertion order
    processed_ads,   \* the list process_ads returned
    hours,           \* filter_ads_by_time: the threshold (Null for None)
    now,             \* filter_ads_by_time: datetime.now(timezone.utc), in hours
    filtered_ads,    \* the list filter_ads_by_time returned
    api_key,         \* analyze_with_gemini: the key (TRUE when non-empty)
    top,             \* analyze_with_gemini: image_ads[:5]
    k,               \* analyze_with_gemini: loop index into top (0-based)
    contents,        \* analyze_with_gemini: the request contents after SYSTEM_PROMPT
    uploaded_count,  \* analyze_with_gemini: images attached
    request_sent,    \* whether client.models.generate_content was called
    result_text,     \* analyze_with_gemini: response.text
    exc,             \* analyze_with_gemini: the exception caught by the outer except
    ai_report,       \* what analyze_with_gemini returned
    shown,           \* render_ad_results: <<position in ads, analysis index>> pairs
    flow,            \* the scan handler running: "quick_scan" or "brand_library"
    url_input,       \* the handler's URL (TRUE when non-empty)
    api_token,       \* fetch_ads_from_apify: the token (TRUE when non-empty)
    retry_count,     \* fetch_ads_from_apify: the counter of the poll loop
    run_status,      \* fetch_ads_from_apify: the status of the last poll
    polls,           \* status requests sent by the call of fetch_ads_from_apify
    raw_data,        \* what fetch_ads_from_apify returned
    failure          \* how the acquisition failed ("" when it did not)

fetch_vars == <<flow, url_input, api_token, retry_count, run_status, polls,
                raw_data, failure>>

vars == <<pc, raw_ads, i, grouped_ads, processed_ads, hours, now, filtered_ads,
          api_key, top, k, contents, uploaded_count, request_sent, result_text,
          exc, ai_report, shown, fetch_vars>>

(***************************************************************************)
(* Bounds of the model                                                      *)
(***************************************************************************)
MaxBatch == 3
MaxGroups == 6

(***************************************************************************)
(* JSON values and Python's truthiness                                      *)
(***************************************************************************)
Null == [t |-> "null"]
Str(s) == [t |-> "str", s |-> s]
Dict(f) == [t |-> "dict", f |-> f]
List(items) == [t |-> "list", items |-> items]
EmptyStr == Str(<<>>)
EmptyDict == Dict(<<>>)
EmptyList == List(<<>>)

\* bool(v)
Truthy(v) ==
    CASE v.t = "null" -> FALSE
      [] v.t = "str"  -> v.s # <<>>
      [] v.t = "list" -> v.items # <<>>
      [] v.t = "dict" -> DOMAIN v.f # {}

\* v or d
Or(v, d) == IF Truthy(v) THEN v ELSE d

\* d.get(key) on a dict
Get(d, key) == IF key \in DOMAIN d.f THEN d.f[key] ELSE Null

(***************************************************************************)
(* Python string operations on sequences of characters                      *)
(***************************************************************************)
\* pat in s
Contains(s, pat) ==
    \E p \in 1..(Len(s) - Len(pat) + 1) : SubSeq(s, p, p + Len(pat) - 1) = pat

\* s[:n]
Left(s, n) == SubSeq(s, 1, IF Len(s) < n THEN Len(s) ELSE n)

\* s.split(sep, 1)[0] and s.split(sep)[0] for a one-character sep
BeforeFirst(s, sep) ==
    IF \E p \in 1..Len(s) : s[p] = sep
    THEN SubSeq(s, 1, (CHOOSE p \in 1..Len(s) :
                          s[p] = sep /\ \A q \in 1..(p - 1) : s[q] # sep) - 1)
    ELSE s

Whitespace == {" ", "\n", "\t"}

\* s.strip()
RECURSIVE Strip(_)
Strip(s) ==
    IF s = <<>> THEN s
    ELSE IF s[1] \in Whitespace THEN Strip(Tail(s))
    ELSE IF s[Len(s)] \in Whitespace THEN Strip(SubSeq(s, 1, Len(s) - 1))
    ELSE s

Rep(c, n) == [p \in 1..n |-> c]

(***************************************************************************)
(* get_clean_url                                                            *)
(***************************************************************************)
get_clean_url(url) == IF ~Truthy(url) THEN <<>> ELSE BeforeFirst(url.s, "?")

(***************************************************************************)
(* process_ads: the per-record part of the loop body                        *)
(***************************************************************************)
FingerprintLen == 50
TitleLen == 50

is_template_variable(text) ==
    Truthy(text) /\ Contains(text.s, <<"{", "{">>) /\ Contains(text.s, <<"}", "}">>)

\* cards[0] or {}, images[0] or {}, videos[0] or {}
First(list) == Or(list.items[1], EmptyDict)

\* lines 173-176: the body of a card, a string or a dict with a text
CardBody(card) ==
    LET raw == Or(Get(Or(card, EmptyDict), "body"), EmptyStr)
    IN  IF raw.t = "dict" THEN Or(Get(raw, "text"), EmptyStr) ELSE raw

\* the body of the first card that has a usable one, instead of cards[0]
ResolveBodyTextFirstGood(body_text, cards) ==
    LET good == {p \in 1..Len(cards.items) :
                    /\ Truthy(CardBody(cards.items[p]))
                    /\ ~is_template_variable(CardBody(cards.items[p]))}
    IN  IF (~Truthy(body_text) \/ is_template_variable(body_text)) /\ good # {}
        THEN CardBody(cards.items[CHOOSE p \in good : \A q \in good : p <= q])
        ELSE body_text
\* lines 172-178
ResolveBodyText(body_text, cards) ==
    IF (~Truthy(body_text) \/ is_template_variable(body_text)) /\ Truthy(cards)
    THEN IF Truthy(CardBody(cards.items[1]))
            /\ ~is_template_variable(CardBody(cards.items[1]))
         THEN CardBody(cards.items[1]) ELSE body_text
    ELSE body_text

VIDEO == Str(<<"V", "I", "D", "E", "O">>)
LearnMore == Str(<<"L", "e", "a", "r", "n", " ", "M", "o", "r", "e">>)
SponsoredAd == Str(<<"S", "p", "o", "n", "s", "o", "r", "e", "d", " ", "A", "d">>)
Ellipsis == <<".", ".", ".">>

\* line 185
IsVideo(display_format, videos) == display_format = VIDEO \/ Truthy(videos)

\* lines 188-211: <<preview_image_url, video_hd_url>>
ResolveMedia(is_video, cards, images, videos) ==
    IF is_video
    THEN LET video0 == IF Truthy(videos) THEN First(videos) ELSE EmptyDict
             p1 == IF Truthy(videos)
                   THEN Or(Get(video0, "videoPreviewImageUrl"), EmptyStr) ELSE EmptyStr
             h1 == IF Truthy(videos)
                   THEN Or(Or(Get(video0, "videoHdUrl"), Get(video0, "videoSdUrl")), EmptyStr)
                   ELSE EmptyStr
         IN  IF ~Truthy(h1) /\ Truthy(cards)
             THEN LET card0 == First(cards)
                      h2 == Or(Or(Get(card0, "videoHdUrl"), Get(card0, "videoUrl")), EmptyStr)
                      p2 == IF ~Truthy(p1)
                            THEN Or(Or(Get(card0, "videoPreviewImageUrl"),
                                       Get(card0, "originalImageUrl")), EmptyStr)
                            ELSE p1
                  IN  <<p2, h2>>
             ELSE <<p1, h1>>
    ELSE IF Truthy(cards)
         THEN <<Or(Or(Get(First(cards), "originalImageUrl"),
                      Get(First(cards), "resizedImageUrl")), EmptyStr), EmptyStr>>
         ELSE IF Truthy(images)
         THEN <<Or(Or(Get(First(images), "originalImageUrl"),
                      Get(First(images), "resizedImageUrl")), EmptyStr), EmptyStr>>
         ELSE <<EmptyStr, EmptyStr>>

\* lines 215-228
ResolveTitle(snapshot, cards, body_text) ==
    LET t0 == Or(Get(snapshot, "title"), EmptyStr)
        t1 == IF (~Truthy(t0) \/ is_template_variable(t0)) /\ Truthy(cards)
              THEN Or(Get(First(cards), "title"), EmptyStr) ELSE t0
        first_line == Strip(BeforeFirst(body_text.s, "\n"))
        t2 == IF (~Truthy(t1) \/ is_template_variable(t1)) /\ Truthy(body_text)
              THEN Str(Left(first_line, TitleLen)
                       \o (IF Len(first_line) > TitleLen THEN Ellipsis ELSE <<>>))
              ELSE t1
    IN  IF ~Truthy(t2) \/ is_template_variable(t2) THEN SponsoredAd ELSE t2

\* the archive id made part of the key
FingerprintKeyWithId(ad_archive_id, body_text, preview_image_url) ==
    Left(body_text.s, FingerprintLen) \o <<"_">> \o get_clean_url(preview_image_url)
        \o (IF Truthy(ad_archive_id) THEN ad_archive_id.s ELSE <<>>)
\* line 233: f"{body_text[:50]}_{clean_preview_url}"
FingerprintKey(ad_archive_id, body_text, preview_image_url) ==
    Left(body_text.s, FingerprintLen) \o <<"_">> \o get_clean_url(preview_image_url)

\* body.get raises AttributeError when snapshot.body is a non-empty string
Raises(ad) ==
    LET snapshot == Or(Get(ad, "snapshot"), EmptyDict)
    IN  Or(Get(snapshot, "body"), EmptyDict).t # "dict"

\* lines 150-233 and the group literal of lines 240-268
Normalize(ad) ==
    LET snapshot == Or(Get(ad, "snapshot"), EmptyDict)
        ad_archive_id == Or(Get(ad, "adArchiveID"), EmptyStr)
        body == Or(Get(snapshot, "body"), EmptyDict)
        cards == Or(Get(snapshot, "cards"), EmptyList)
        images == Or(Get(snapshot, "images"), EmptyList)
        videos == Or(Get(snapshot, "videos"), EmptyList)
        body_text == ResolveBodyText(Or(Get(body, "text"), EmptyStr), cards)
        display_format == Or(Get(snapshot, "displayFormat"), EmptyStr)
        is_video == IsVideo(display_format, videos)
        media == ResolveMedia(is_video, cards, images, videos)
    IN  [key |-> FingerprintKey(ad_archive_id, body_text, media[1]),
         intensity |-> 1,
         ad_ids |-> <<ad_archive_id>>,
         ad_archive_id |-> ad_archive_id,
         page_id |-> Or(Get(ad, "pageID"), EmptyStr),
         page_name |-> Or(Get(ad, "pageName"), EmptyStr),
         start_date |-> Or(Get(ad, "startDateFormatted"), EmptyStr),
         title |-> ResolveTitle(snapshot, cards, body_text),
         text |-> body_text,
         cta |-> Or(Get(snapshot, "ctaText"), LearnMore),
         link_url |-> Or(Get(snapshot, "linkUrl"), EmptyStr),
         display_format |-> display_format,
         is_video |-> is_video,
         preview_image_url |-> media[1],
         video_hd_url |-> media[2],
         cards |-> cards,
         images |-> images,
         videos |-> videos]

(***************************************************************************)
(* process_ads: aggregation (lines 236-268) and ranking (line 271)          *)
(***************************************************************************)
HasKey(groups, key) == \E p \in 1..Len(groups) : groups[p].key = key

\* a merge that appends the id and forgets the counter
MergeNoCount(groups, g) ==
    IF HasKey(groups, g.key)
    THEN [p \in 1..Len(groups) |->
            IF groups[p].key = g.key
            THEN [groups[p] EXCEPT !.ad_ids = Append(@, g.ad_archive_id)]
            ELSE groups[p]]
    ELSE Append(groups, g)
\* a merge in which the fields of the later record replace the group's
MergeLastWins(groups, g) ==
    IF HasKey(groups, g.key)
    THEN [p \in 1..Len(groups) |->
            IF groups[p].key = g.key
            THEN [g EXCEPT !.intensity = groups[p].intensity + 1,
                           !.ad_ids = Append(groups[p].ad_ids, g.ad_archive_id)]
            ELSE groups[p]]
    ELSE Append(groups, g)
\* lines 236-268
Merge(groups, g) ==
    IF HasKey(groups, g.key)
    THEN [p \in 1..Len(groups) |->
            IF groups[p].key = g.key
            THEN [groups[p] EXCEPT !.intensity = @ + 1,
                                   !.ad_ids = Append(@, g.ad_archive_id)]
            ELSE groups[p]]
    ELSE Append(groups, g)

MaxIntensity(s) ==
    CHOOSE m \in {s[p].intensity : p \in 1..Len(s)} :
        \A p \in 1..Len(s) : s[p].intensity <= m

Without(s, p) == SubSeq(s, 1, p - 1) \o SubSeq(s, p + 1, Len(s))

\* sorted(reverse=True) with ties reversed, as sorted(...)[::-1] would give
RECURSIVE SortedReversedTies(_)
SortedReversedTies(s) ==
    IF s = <<>> THEN <<>>
    ELSE LET p == CHOOSE p \in 1..Len(s) :
                    /\ s[p].intensity = MaxIntensity(s)
                    /\ \A q \in (p + 1)..Len(s) : s[q].intensity # MaxIntensity(s)
         IN  <<s[p]>> \o SortedReversedTies(Without(s, p))

\* sorted(values, key=intensity, reverse=True): stable, ties keep their order
RECURSIVE SortedByIntensity(_)
SortedByIntensity(s) ==
    IF s = <<>> THEN <<>>
    ELSE LET p == CHOOSE p \in 1..Len(s) :
                    /\ s[p].intensity = MaxIntensity(s)
                    /\ \A q \in 1..(p - 1) : s[q].intensity # MaxIntensity(s)
         IN  <<s[p]>> \o SortedByIntensity(Without(s, p))

\* process_ads as a function of the batch (no record raising)
RECURSIVE GroupAll(_, _)
GroupAll(batch, groups) ==
    IF batch = <<>> THEN groups
    ELSE GroupAll(Tail(batch), Merge(groups, Normalize(Head(batch))))

process_ads(batch) == SortedByIntensity(GroupAll(batch, <<>>))

(***************************************************************************)
(* filter_ads_by_time (lines 284-306).  Instants are whole hours.  A start  *)
(* date string is a sequence of symbols: a date-time body ("D160" is the    *)
(* text of the local date-time at hour 160), "Z", "+00:00", or junk.        *)
(***************************************************************************)
Hours(n) == [t |-> "int", n |-> n]

\* TIME_FILTER_OPTIONS (lines 276-281)
TIME_FILTER_OPTIONS == {Null, Hours(48), Hours(72), Hours(168)}

DateBody == [D010 |-> 10, D100 |-> 100, D152 |-> 152, D160 |-> 160]

\* s.replace("Z", "+00:00")
ReplaceZ(s) == [p \in 1..Len(s) |-> IF s[p] = "Z" THEN "+00:00" ELSE s[p]]

\* datetime.fromisoformat: a naive or an offset-aware datetime, or ValueError
fromisoformat(s) ==
    IF Len(s) = 1 /\ s[1] \in DOMAIN DateBody
    THEN [ok |-> TRUE, aware |-> FALSE, h |-> DateBody[s[1]]]
    ELSE IF Len(s) = 2 /\ s[1] \in DOMAIN DateBody /\ s[2] = "+00:00"
    THEN [ok |-> TRUE, aware |-> TRUE, h |-> DateBody[s[1]]]
    ELSE [ok |-> FALSE, aware |-> FALSE, h |-> 0]

\* the loop body, lines 296-304: ValueError (no parse) and TypeError (a naive
\* datetime compared with the aware cutoff) both keep the group
\* a start date that does not parse drops the group
KeptDropUnparsed(ad, cutoff) ==
    LET d == fromisoformat(ReplaceZ(Or(ad.start_date, EmptyStr).s))
    IN  d.ok /\ d.aware /\ d.h >= cutoff
\* the comparison of line 300 written as start_date > cutoff
KeptStrictlyAfter(ad, cutoff) ==
    LET d == fromisoformat(ReplaceZ(Or(ad.start_date, EmptyStr).s))
    IN  IF ~d.ok THEN TRUE
        ELSE IF ~d.aware THEN TRUE
        ELSE d.h > cutoff
Kept(ad, cutoff) ==
    LET d == fromisoformat(ReplaceZ(Or(ad.start_date, EmptyStr).s))
    IN  IF ~d.ok THEN TRUE
        ELSE IF ~d.aware THEN TRUE
        ELSE d.h >= cutoff

\* None taken as a threshold of 0 hours
FilterKeepRecent(ads, h, t) ==
    LET Test(ad) == Kept(ad, t - (IF h.t = "null" THEN 0 ELSE h.n))
    IN  SelectSeq(ads, Test)
filter_ads_by_time(ads, h, t) ==
    IF h.t = "null" THEN ads
    ELSE LET Test(ad) == Kept(ad, t - h.n)
         IN  SelectSeq(ads, Test)

(***************************************************************************)
(* analyze_with_gemini (lines 428-513)                                      *)
(***************************************************************************)
TopN == 5
PromptTextLen == 500

\* line 444
ImageAds(groups) == LET NotVideo(g) == ~g.is_video IN SelectSeq(groups, NotVideo)

\* line 451
Top(groups) == Left(ImageAds(groups), TopN)

\* line 456
TextBlock(idx, g) ==
    [kind |-> "text", index |-> idx, title |-> g.title,
     text |-> Left(g.text.s, PromptTextLen)]

FileOf(image_url) == [kind |-> "file", url |-> image_url]

\* the request goes out whatever was attached
CanSendAlways(count) == TRUE
\* line 467
CanSend(count) == count # 0

\* first position of pat in s, 0 when absent
IndexOf(s, pat) ==
    IF Contains(s, pat)
    THEN CHOOSE p \in 1..(Len(s) - Len(pat) + 1) :
            /\ SubSeq(s, p, p + Len(pat) - 1) = pat
            /\ \A q \in 1..(p - 1) : SubSeq(s, q, q + Len(pat) - 1) # pat
    ELSE 0

\* s.split(pat, 1)[1] when pat is in s
AfterPat(s, pat) == SubSeq(s, IndexOf(s, pat) + Len(pat), Len(s))
\* s.split(pat, 1)[0]
BeforePat(s, pat) == IF Contains(s, pat) THEN SubSeq(s, 1, IndexOf(s, pat) - 1) ELSE s

\* the backquote character
BQ == "bq"
Fence == <<BQ, BQ, BQ>>
FenceJson == Fence \o <<"j", "s", "o", "n">>

\* lines 485-488
StripFence(raw) ==
    IF Contains(raw, FenceJson) THEN BeforePat(AfterPat(raw, FenceJson), Fence)
    ELSE IF Contains(raw, Fence) THEN BeforePat(AfterPat(raw, Fence), Fence)
    ELSE raw

Report(overall, indexes) ==
    [t |-> "obj", overall_analysis |-> overall,
     individual_ads |-> [p \in 1..Len(indexes) |-> [index |-> indexes[p]]]]

\* A JSON document is one symbol of the response text; these are the objects
\* json.loads gives for them ("{-}" has an entry without index: get gives -1)
JsonDoc ==
    [d0  |-> Report([promotion_intel |-> <<"p">>], <<0>>),
     d01 |-> Report([promotion_intel |-> <<"p">>], <<0, 1>>),
     d1  |-> Report([promotion_intel |-> <<"p">>], <<1>>),
     dm  |-> Report([promotion_intel |-> <<"p">>], <<-1, 0>>)]

\* json.loads(raw) succeeds: one document, whitespace around it allowed
Parses(raw) == Len(Strip(raw)) = 1 /\ Strip(raw)[1] \in DOMAIN JsonDoc

\* lines 495-502
FallbackReport(text) ==
    Report([promotion_intel |-> text.s,
            creative_trend |-> <<"no structured JSON">>,
            key_takeaways |-> <<"check the response">>], <<>>)

\* lines 506-513
ErrorReport(e) ==
    Report([promotion_intel |-> <<"Gemini API Error: ">> \o e,
            creative_trend |-> <<"Error">>,
            key_takeaways |-> <<"Error">>], <<>>)

\* no fallback object when json.loads raises
ParseResponseNoFallback(text) ==
    IF ~Truthy(text) THEN Null
    ELSE LET raw == StripFence(Strip(text.s))
         IN  IF Parses(raw) THEN JsonDoc[Strip(raw)[1]] ELSE Null
\* lines 478-502
ParseResponse(text) ==
    IF ~Truthy(text) THEN Null
    ELSE LET raw == StripFence(Strip(text.s))
         IN  IF Parses(raw) THEN JsonDoc[Strip(raw)[1]] ELSE FallbackReport(text)

(***************************************************************************)
(* render_ad_results: the merge of per-ad analyses (lines 642-676)          *)
(***************************************************************************)
\* lines 643-648: the keys of analysis_map
AnalysisIndexes(report) ==
    IF report.t = "null" THEN {}
    ELSE {report.individual_ads[p].index : p \in 1..Len(report.individual_ads)}
            \cap Nat

\* lines 651, 675: positions are 0-based, the analysis of index idx is shown at
\* position idx of ads
Shown(ads, report) ==
    {<<idx, idx>> : idx \in (0..(Len(ads) - 1)) \cap AnalysisIndexes(report)}

(***************************************************************************)
(* Inputs                                                                   *)
(***************************************************************************)
Ad(id, date, snapshot) ==
    Dict([adArchiveID |-> id, pageID |-> Str(<<"7">>), pageName |-> Str(<<"P">>),
          startDateFormatted |-> date, snapshot |-> snapshot])

Snapshot(text, title, format, cards, images, videos) ==
    Dict([body |-> Dict([text |-> text]), title |-> title, ctaText |-> Null,
          linkUrl |-> Str(<<"l">>), displayFormat |-> format,
          cards |-> cards, images |-> images, videos |-> videos])

IMAGE == Str(<<"I", "M", "A", "G", "E">>)
Buy == Str(<<"B", "u", "y">>)
Placeholder == Str(<<"{", "{", "b", "}", "}">>)
Image(url) == Dict([originalImageUrl |-> Str(url)])

\* The records of the batches: the same creative under two tracking tags (1, 2),
\* two texts that agree on their first 50 characters (3, 4), a video (5), a
\* templated carousel (6), a record whose body is a plain string (7), and a
\* record without media (8)
PoolAds ==
    <<Ad(Str(<<"1">>), Str(<<"D160", "Z">>),
         Snapshot(Buy, Null, IMAGE, Null, List(<<Image(<<"a", "?", "1">>)>>), Null)),
      Ad(Str(<<"2">>), Str(<<"x">>),
         Snapshot(Buy, Null, IMAGE, Null, List(<<Image(<<"a", "?", "2">>)>>), Null)),
      Ad(Null, Null,
         Snapshot(Str(Rep("t", FingerprintLen) \o <<"u">>), Null, Null, Null,
                  List(<<Image(<<"b">>)>>), Null)),
      Ad(Str(<<"1">>), Str(<<"D152">>),
         Snapshot(Str(Rep("t", FingerprintLen) \o <<"v", "w">>), Null, Null, Null,
                  List(<<Image(<<"b">>)>>), Null)),
      Ad(Str(<<"5">>), Str(<<"D010", "Z">>),
         Snapshot(Str(<<"V">>), Str(<<"T">>), VIDEO, Null, Null,
                  List(<<Dict([videoPreviewImageUrl |-> Str(<<"p">>),
                               videoHdUrl |-> Str(<<"h">>)])>>))),
      Ad(Str(<<"6">>), Str(<<"D100", "Z">>),
         Snapshot(Placeholder, Placeholder, IMAGE,
                  List(<<Dict([body |-> Dict([text |-> Str(<<"C">>)]),
                               title |-> Str(<<"T">>),
                               originalImageUrl |-> Str(<<"c">>)])>>), Null, Null)),
      Ad(Str(<<"7">>), Str(<<"D160", "Z">>),
         Dict([body |-> Str(<<"o">>), displayFormat |-> IMAGE])),
      Ad(Str(<<"8">>), Str(<<"D152", "Z">>),
         Snapshot(Buy, Null, IMAGE, Null, Null, Null))>>

Pool == {PoolAds[p] : p \in 1..Len(PoolAds)}

SeqsUpTo(S, n) == UNION {[1..m -> S] : m \in 0..n}

Batches == SeqsUpTo(Pool, MaxBatch)

\* datetime.now(timezone.utc), in hours
Nows == {200, 220}

\* str(e) of the exceptions the google-genai client raises
Errors == {<<"quota">>}

\* response.text of the inference service
Responses ==
    {Null, EmptyStr, Str(<<" ">>), Str(<<"x">>),
     Str(<<"d0">>), Str(<<" ", "d01", "\n">>),
     Str(FenceJson \o <<"\n", "d0", "\n">> \o Fence),
     Str(Fence \o <<"d1">> \o Fence),
     Str(FenceJson \o <<"x">> \o Fence),
     Str(<<"x", " ">> \o FenceJson \o <<"dm">> \o Fence \o <<"x">>)}

(***************************************************************************)
(* The pipeline                                                             *)
(***************************************************************************)
Idle ==
    /\ i = 1 /\ grouped_ads = <<>> /\ processed_ads = <<>>
    /\ hours = Null /\ now = 0 /\ filtered_ads = <<>>
    /\ api_key = FALSE /\ top = <<>> /\ k = 0 /\ contents = <<>>
    /\ uploaded_count = 0 /\ request_sent = FALSE /\ result_text = Null
    /\ exc = <<>> /\ ai_report = Null /\ shown = {}

\* no scan handler is running
NoFetch ==
    /\ flow = "quick_scan" /\ url_input = TRUE /\ api_token = TRUE
    /\ retry_count = 0 /\ run_status = "" /\ polls = 0
    /\ raw_data = <<>> /\ failure = ""

\* process_ads is called with a batch
Init == pc = "process" /\ raw_ads \in Batches /\ Idle /\ NoFetch

\* one iteration of the loop of lines 149-268
ProcessAd ==
    /\ pc = "process" /\ i <= Len(raw_ads) /\ ~Raises(raw_ads[i])
    /\ grouped_ads' = Merge(grouped_ads, Normalize(raw_ads[i]))
    /\ i' = i + 1
    /\ UNCHANGED <<pc, raw_ads, processed_ads, hours, now, filtered_ads, api_key, top,
                   k, contents, uploaded_count, request_sent, result_text, exc,
                   ai_report, shown>>
    /\ UNCHANGED fetch_vars

\* line 160 raises AttributeError: process_ads returns nothing
ProcessAdRaises ==
    /\ pc = "process" /\ i <= Len(raw_ads) /\ Raises(raw_ads[i])
    /\ pc' = "raised"
    /\ UNCHANGED <<raw_ads, i, grouped_ads, processed_ads, hours, now, filtered_ads,
                   api_key, top, k, contents, uploaded_count, request_sent,
                   result_text, exc, ai_report, shown>>
    /\ UNCHANGED fetch_vars

\* line 271
ProcessReturn ==
    /\ pc = "process" /\ i > Len(raw_ads)
    /\ processed_ads' = SortedByIntensity(grouped_ads)
    /\ pc' = "processed"
    /\ UNCHANGED <<raw_ads, i, grouped_ads, hours, now, filtered_ads, api_key, top, k,
                   contents, uploaded_count, request_sent, result_text, exc,
                   ai_report, shown>>
    /\ UNCHANGED fetch_vars

\* lines 747 and 822: the handlers filter what process_ads returned
FilterAdsByTime ==
    /\ pc = "processed"
    /\ \E h \in TIME_FILTER_OPTIONS, t \in Nows :
          /\ hours' = h /\ now' = t
          /\ filtered_ads' = filter_ads_by_time(processed_ads, h, t)
    /\ raw_ads' = <<>> /\ grouped_ads' = <<>> /\ i' = 1
    /\ pc' = "filtered"
    /\ UNCHANGED <<processed_ads, api_key, top, k, contents, uploaded_count,
                   request_sent, result_text, exc, ai_report, shown>>
    /\ UNCHANGED fetch_vars

\* lines 758-760 and 826-827
CallAnalyze ==
    /\ pc = "filtered" /\ filtered_ads # <<>>
    /\ api_key' = TRUE
    /\ pc' = "analyze"
    /\ UNCHANGED <<raw_ads, i, grouped_ads, processed_ads, hours, now, filtered_ads,
                   top, k, contents, uploaded_count, request_sent, result_text, exc,
                   ai_report, shown>>
    /\ UNCHANGED fetch_vars

\* lines 761-762 and 828-829
SkipAnalyze ==
    /\ pc = "filtered"
    /\ \E key \in BOOLEAN : ~(key /\ filtered_ads # <<>>) /\ api_key' = key
    /\ ai_report' = Null
    /\ pc' = "returned"
    /\ UNCHANGED <<raw_ads, i, grouped_ads, processed_ads, hours, now, filtered_ads,
                   top, k, contents, uploaded_count, request_sent, result_text, exc,
                   shown>>
    /\ UNCHANGED fetch_vars

AnalyzeFrame ==
    UNCHANGED <<raw_ads, i, grouped_ads, processed_ads, hours, now, filtered_ads,
                api_key, shown, fetch_vars>>

\* lines 434-435
AnalyzeNoKey ==
    /\ pc = "analyze" /\ ~api_key
    /\ ai_report' = Null /\ pc' = "returned"
    /\ UNCHANGED <<top, k, contents, uploaded_count, request_sent, result_text, exc>>
    /\ AnalyzeFrame

\* line 438 raises; lines 504-513
AnalyzeClientFails ==
    /\ pc = "analyze" /\ api_key
    /\ \E e \in Errors : exc' = e /\ ai_report' = ErrorReport(e)
    /\ pc' = "returned"
    /\ UNCHANGED <<top, k, contents, uploaded_count, request_sent, result_text>>
    /\ AnalyzeFrame

\* lines 444-448
AnalyzeNoImages ==
    /\ pc = "analyze" /\ api_key /\ ImageAds(filtered_ads) = <<>>
    /\ ai_report' = Null /\ pc' = "returned"
    /\ UNCHANGED <<top, k, contents, uploaded_count, request_sent, result_text, exc>>
    /\ AnalyzeFrame

\* lines 451-452
AnalyzeSelect ==
    /\ pc = "analyze" /\ api_key /\ ImageAds(filtered_ads) # <<>>
    /\ top' = Top(filtered_ads) /\ k' = 0 /\ uploaded_count' = 0 /\ contents' = <<>>
    /\ pc' = "upload"
    /\ UNCHANGED <<request_sent, result_text, exc, ai_report>>
    /\ AnalyzeFrame

\* the loop body of lines 454-465 when the image is not attached
Skip ==
    /\ contents' = Append(contents, TextBlock(k, top[k + 1]))
    /\ k' = k + 1
    /\ UNCHANGED <<pc, top, uploaded_count, request_sent, result_text, exc, ai_report>>
    /\ AnalyzeFrame

\* line 460: the group has no preview image
IterNoUrl ==
    /\ pc = "upload" /\ k < Len(top) /\ ~Truthy(top[k + 1].preview_image_url)
    /\ Skip

\* download_image_to_temp returns None (lines 382-383, 400-402)
IterDownloadFails ==
    /\ pc = "upload" /\ k < Len(top) /\ Truthy(top[k + 1].preview_image_url)
    /\ Skip

\* client.files.upload raises (lines 417-419)
IterUploadFails ==
    /\ pc = "upload" /\ k < Len(top) /\ Truthy(top[k + 1].preview_image_url)
    /\ Skip

\* lines 463-465
IterUploaded ==
    /\ pc = "upload" /\ k < Len(top) /\ Truthy(top[k + 1].preview_image_url)
    /\ contents' = contents \o <<TextBlock(k, top[k + 1]),
                                 FileOf(top[k + 1].preview_image_url)>>
    /\ uploaded_count' = uploaded_count + 1
    /\ k' = k + 1
    /\ UNCHANGED <<pc, top, request_sent, result_text, exc, ai_report>>
    /\ AnalyzeFrame

\* lines 467-469
AnalyzeNoUploads ==
    /\ pc = "upload" /\ k = Len(top) /\ ~CanSend(uploaded_count)
    /\ ai_report' = Null /\ pc' = "returned"
    /\ UNCHANGED <<top, k, contents, uploaded_count, request_sent, result_text, exc>>
    /\ AnalyzeFrame

\* lines 473-476 raise; lines 504-513
GenerateFails ==
    /\ pc = "upload" /\ k = Len(top) /\ CanSend(uploaded_count)
    /\ request_sent' = TRUE
    /\ \E e \in Errors : exc' = e /\ ai_report' = ErrorReport(e)
    /\ pc' = "returned"
    /\ UNCHANGED <<top, k, contents, uploaded_count, result_text>>
    /\ AnalyzeFrame

\* lines 473-502
GenerateReturns ==
    /\ pc = "upload" /\ k = Len(top) /\ CanSend(uploaded_count)
    /\ request_sent' = TRUE
    /\ \E text \in Responses : result_text' = text /\ ai_report' = ParseResponse(text)
    /\ pc' = "returned"
    /\ UNCHANGED <<top, k, contents, uploaded_count, exc>>
    /\ AnalyzeFrame

\* lines 765-770 and 841-854: the session's ads and report are rendered
RenderAdResults ==
    /\ pc = "returned" /\ filtered_ads # <<>>
    /\ shown' = Shown(filtered_ads, ai_report)
    /\ pc' = "rendered"
    /\ UNCHANGED <<raw_ads, i, grouped_ads, processed_ads, hours, now, filtered_ads,
                   api_key, top, k, contents, uploaded_count, request_sent,
                   result_text, exc, ai_report>>
    /\ UNCHANGED fetch_vars

Analyze ==
    \/ AnalyzeClientFails \/ AnalyzeNoImages \/ AnalyzeSelect
    \/ IterNoUrl \/ IterDownloadFails \/ IterUploadFails \/ IterUploaded
    \/ AnalyzeNoUploads \/ GenerateFails \/ GenerateReturns

Next ==
    \/ ProcessAd \/ ProcessAdRaises \/ ProcessReturn
    \/ FilterAdsByTime \/ CallAnalyze \/ SkipAnalyze
    \/ Analyze
    \/ RenderAdResults

Spec == Init /\ [][Next]_vars

(***************************************************************************)
(* process_ads on one record, over the shapes a snapshot can take           *)
(***************************************************************************)
Reversed == Str(<<"}", "}", "a", "{", "{">>)
Unmatched == Str(<<"{", "{", "x">>)

WideTexts == {Null, EmptyStr, Buy, Placeholder, Reversed, Unmatched}
WideTitles == {Null, Placeholder}
WideFormats == {Null, IMAGE, VIDEO}

Card(body, original, preview, hd, plain) ==
    Dict([body |-> body, title |-> Str(<<"T">>), originalImageUrl |-> original,
          resizedImageUrl |-> Str(<<"r">>), videoPreviewImageUrl |-> preview,
          videoHdUrl |-> hd, videoUrl |-> plain])

CardC == Str(<<"C">>)
CardBodies ==
    {Null, CardC, Dict([text |-> CardC]), Dict([text |-> Null]),
     Placeholder, Dict([text |-> Placeholder])}

WideCards ==
    {Card(b, Str(<<"c">>), Null, Null, Null) : b \in CardBodies}
    \cup {Card(Null, o, q, h, u) :
            o \in {Null, Str(<<"o">>)}, q \in {Null, Str(<<"q">>)},
            h \in {Null, Str(<<"H">>)}, u \in {Null, Str(<<"u">>)}}

GoodCard == Card(Str(<<"G">>), Str(<<"g">>), Null, Str(<<"W">>), Null)

WideCardLists ==
    {Null} \cup {List(<<c>>) : c \in WideCards}
           \cup {List(<<c, GoodCard>>) : c \in WideCards}

WideVideoLists ==
    {Null} \cup {List(<<Dict([videoPreviewImageUrl |-> q, videoHdUrl |-> h,
                              videoSdUrl |-> sd])>>) :
                    q \in {Null, Str(<<"p">>)}, h \in {Null, Str(<<"h">>)},
                    sd \in {Null, Str(<<"s">>)}}

WideImageLists ==
    {Null, List(<<Image(<<"a", "?", "1">>)>>),
     List(<<Dict([resizedImageUrl |-> Str(<<"z">>)])>>)}

WideAds ==
    {Ad(Str(<<"1">>), Null, Snapshot(text, title, format, cards, images, videos)) :
        text \in WideTexts, title \in WideTitles, format \in WideFormats,
        cards \in WideCardLists, images \in WideImageLists, videos \in WideVideoLists}

InitNorm == pc = "process" /\ raw_ads \in {<<ad>> : ad \in WideAds} /\ Idle /\ NoFetch

NextNorm == ProcessAd \/ ProcessReturn

SpecNorm == InitNorm /\ [][NextNorm]_vars

(***************************************************************************)
(* analyze_with_gemini and render_ad_results on the group lists process_ads *)
(* returns for batches of distinct videos, images and records without media *)
(***************************************************************************)
Kinds == {"video", "image", "bare"}

KindAd(kind, p) ==
    Ad(Str(Rep("n", p)), Null,
       Snapshot(Str(Rep("b", p)), Null,
                IF kind = "video" THEN VIDEO ELSE IMAGE, Null,
                IF kind = "image" THEN List(<<Image(<<"a", "?", "1">>)>>) ELSE Null,
                IF kind = "video"
                THEN List(<<Dict([videoPreviewImageUrl |-> Str(<<"v">>),
                                  videoHdUrl |-> Str(<<"h">>)])>>)
                ELSE Null))

KindBatch(kinds) == [p \in 1..Len(kinds) |-> KindAd(kinds[p], p)]

GroupLists == {process_ads(KindBatch(kinds)) : kinds \in SeqsUpTo(Kinds, MaxGroups)}

InitAnalyze ==
    /\ pc = "analyze" /\ raw_ads = <<>>
    /\ i = 1 /\ grouped_ads = <<>>
    /\ filtered_ads \in GroupLists /\ processed_ads = filtered_ads
    /\ hours = Null /\ now = 0
    /\ api_key \in BOOLEAN /\ top = <<>> /\ k = 0 /\ contents = <<>>
    /\ uploaded_count = 0 /\ request_sent = FALSE /\ result_text = Null
    /\ exc = <<>> /\ ai_report = Null /\ shown = {}
    /\ NoFetch

NextAnalyze == AnalyzeNoKey \/ Analyze \/ RenderAdResults

SpecAnalyze == InitAnalyze /\ [][NextAnalyze]_vars

(***************************************************************************)
(* fetch_ads_from_apify (lines 38-122) and the two scan handlers (lines     *)
(* 733-762 and 816-834)                                                     *)
(***************************************************************************)
MaxItems == 1

\* line 78
max_retries == 100

\* the run statuses the poll loop tests for, and those it waits on
SUCCEEDED == "SUCCEEDED"
FailedStatuses == {"FAILED", "ABORTED", "TIMED-OUT"}
PendingStatuses == {"READY", "RUNNING"}

\* response.json() of the dataset request
Datasets == SeqsUpTo(Pool, MaxItems)

PipelineFrame ==
    UNCHANGED <<raw_ads, i, grouped_ads, processed_ads, hours, now, filtered_ads,
                api_key, top, k, contents, uploaded_count, request_sent,
                result_text, exc, ai_report, shown>>

\* the loop runs once more
CanPollOnceMore(count) == count <= max_retries
\* line 80: while retry_count < max_retries
CanPoll(count) == count < max_retries

\* every value of raw_data is taken as data
HasDataAlways(data) == TRUE
\* lines 740 and 820: the truth value of raw_data
HasData(data) == data # <<>>

\* lines 734-735: Quick Scan without a URL
ClickNoUrl ==
    /\ pc = "clicked" /\ flow = "quick_scan" /\ ~url_input
    /\ pc' = "done"
    /\ UNCHANGED fetch_vars
    /\ PipelineFrame

\* lines 738 and 819: the handler calls fetch_ads_from_apify
ClickFetch ==
    /\ pc = "clicked" /\ url_input
    /\ pc' = "fetch"
    /\ UNCHANGED fetch_vars
    /\ PipelineFrame

\* return [] after a failure of the given kind
ReturnEmpty(why) ==
    /\ raw_data' = <<>> /\ failure' = why
    /\ pc' = "fetch_returned"
    /\ UNCHANGED <<flow, url_input, api_token>>
    /\ PipelineFrame

\* lines 42-44
FetchNoToken ==
    /\ pc = "fetch" /\ ~api_token
    /\ ReturnEmpty("missing token")
    /\ UNCHANGED <<retry_count, run_status, polls>>

\* lines 63-67: the start request is not answered with 201
FetchStartFails ==
    /\ pc = "fetch" /\ api_token
    /\ ReturnEmpty("actor start failure")
    /\ UNCHANGED <<retry_count, run_status, polls>>

\* lines 69-73: the answer carries no run id
FetchNoRunId ==
    /\ pc = "fetch" /\ api_token
    /\ ReturnEmpty("no run id")
    /\ UNCHANGED <<retry_count, run_status, polls>>

\* requests.post or resp.json raises; lines 120-122
FetchStartRaises ==
    /\ pc = "fetch" /\ api_token
    /\ ReturnEmpty("exception")
    /\ UNCHANGED <<retry_count, run_status, polls>>

\* lines 75-79: the run is started
FetchStarted ==
    /\ pc = "fetch" /\ api_token
    /\ retry_count' = 0
    /\ pc' = "poll"
    /\ UNCHANGED <<flow, url_input, api_token, run_status, polls, raw_data, failure>>
    /\ PipelineFrame

\* lines 80-89: the poll reports SUCCEEDED, break
PollSucceeded ==
    /\ pc = "poll" /\ CanPoll(retry_count)
    /\ polls' = polls + 1 /\ run_status' = SUCCEEDED
    /\ pc' = "polled"
    /\ UNCHANGED <<flow, url_input, api_token, retry_count, raw_data, failure>>
    /\ PipelineFrame

\* lines 80-93: the poll reports FAILED, ABORTED or TIMED-OUT
PollFailed ==
    /\ pc = "poll" /\ CanPoll(retry_count)
    /\ polls' = polls + 1
    /\ \E s \in FailedStatuses : run_status' = s
    /\ ReturnEmpty("run failed")
    /\ UNCHANGED retry_count

\* lines 80-96: any other status, sleep and count
PollPending ==
    /\ pc = "poll" /\ CanPoll(retry_count)
    /\ polls' = polls + 1
    /\ \E s \in PendingStatuses : run_status' = s
    /\ retry_count' = retry_count + 1
    /\ UNCHANGED <<pc, flow, url_input, api_token, raw_data, failure>>
    /\ PipelineFrame

\* requests.get or status_resp.json raises in the loop; lines 120-122
PollRaises ==
    /\ pc = "poll" /\ CanPoll(retry_count)
    /\ polls' = polls + 1
    /\ ReturnEmpty("exception")
    /\ UNCHANGED <<retry_count, run_status>>

\* line 80: the condition of the loop is false
PollExhausted ==
    /\ pc = "poll" /\ ~CanPoll(retry_count)
    /\ pc' = "polled"
    /\ UNCHANGED fetch_vars
    /\ PipelineFrame

\* lines 98-101
FetchTimedOut ==
    /\ pc = "polled" /\ retry_count >= max_retries
    /\ ReturnEmpty("poll ceiling exceeded")
    /\ UNCHANGED <<retry_count, run_status, polls>>

\* lines 104-107: the last status data names no dataset
FetchNoDatasetId ==
    /\ pc = "polled" /\ retry_count < max_retries
    /\ ReturnEmpty("no dataset id")
    /\ UNCHANGED <<retry_count, run_status, polls>>

\* lines 111-118: the dataset request is not answered with 200
FetchDatasetFails ==
    /\ pc = "polled" /\ retry_count < max_retries
    /\ ReturnEmpty("dataset fetch failure")
    /\ UNCHANGED <<retry_count, run_status, polls>>

\* requests.get or dataset_resp.json raises; lines 120-122
FetchDatasetRaises ==
    /\ pc = "polled" /\ retry_count < max_retries
    /\ ReturnEmpty("exception")
    /\ UNCHANGED <<retry_count, run_status, polls>>

\* lines 111-115: the items of the dataset are returned
FetchDataset ==
    /\ pc = "polled" /\ retry_count < max_retries
    /\ \E data \in Datasets : raw_data' = data
    /\ pc' = "fetch_returned"
    /\ UNCHANGED <<flow, url_input, api_token, retry_count, run_status, polls, failure>>
    /\ PipelineFrame

Fetch ==
    \/ FetchNoToken \/ FetchStartFails \/ FetchNoRunId \/ FetchStartRaises
    \/ FetchStarted
    \/ PollSucceeded \/ PollFailed \/ PollPending \/ PollRaises \/ PollExhausted
    \/ FetchTimedOut \/ FetchNoDatasetId \/ FetchDatasetFails \/ FetchDatasetRaises
    \/ FetchDataset

\* lines 740-741 and 833-834: nothing to process
HandlerNoData ==
    /\ pc = "fetch_returned" /\ ~HasData(raw_data)
    /\ pc' = "done"
    /\ retry_count' = 0 /\ run_status' = "" /\ polls' = 0
    /\ UNCHANGED <<flow, url_input, api_token, raw_data, failure>>
    /\ PipelineFrame

\* lines 744 and 821: process_ads is called with the records
HandlerProcess ==
    /\ pc = "fetch_returned" /\ HasData(raw_data)
    /\ raw_ads' = raw_data /\ i' = 1 /\ grouped_ads' = <<>>
    /\ pc' = "process"
    /\ retry_count' = 0 /\ run_status' = "" /\ polls' = 0
    /\ UNCHANGED <<flow, url_input, api_token, raw_data, failure>>
    /\ UNCHANGED <<processed_ads, hours, now, filtered_ads, api_key, top, k, contents,
                   uploaded_count, request_sent, result_text, exc, ai_report, shown>>

\* a call of fetch_ads_from_apify
InitFetch ==
    /\ pc = "fetch" /\ raw_ads = <<>> /\ Idle
    /\ flow \in {"quick_scan", "brand_library"} /\ url_input = TRUE
    /\ api_token \in BOOLEAN
    /\ retry_count = 0 /\ run_status = "" /\ polls = 0
    /\ raw_data = <<>> /\ failure = ""

SpecFetch == InitFetch /\ [][Fetch]_vars /\ WF_vars(Fetch)

\* a scan button is clicked; a brand is saved with a URL only (line 787)
InitScan ==
    /\ pc = "clicked" /\ raw_ads = <<>> /\ Idle
    /\ flow \in {"quick_scan", "brand_library"} /\ url_input \in BOOLEAN
    /\ flow = "brand_library" => url_input
    /\ api_token \in BOOLEAN
    /\ retry_count = 0 /\ run_status = "" /\ polls = 0
    /\ raw_data = <<>> /\ failure = ""

NextScan == ClickNoUrl \/ ClickFetch \/ Fetch \/ HandlerNoData \/ HandlerProcess \/ Next

SpecScan == InitScan /\ [][NextScan]_vars

(***************************************************************************)
(* Properties                                                               *)
(***************************************************************************)
RECURSIVE SumIntensity(_)
SumIntensity(groups) ==
    IF groups = <<>> THEN 0
    ELSE Head(groups).intensity + SumIntensity(Tail(groups))

\* C1: the intensities of the groups sum to the number of records folded so
\* far (each record adds exactly 1), and the intensities of the returned list
\* sum to the size of the batch, the empty batch included.
C1_IntensitySum ==
    /\ pc = "process" => SumIntensity(grouped_ads) = i - 1
    /\ pc = "processed" => SumIntensity(processed_ads) = Len(raw_ads)

C1_Witness ==
    /\ pc = "processed"
    /\ Len(processed_ads) > 1
    /\ Len(raw_ads) > Len(processed_ads)
    /\ \E a, b \in 1..Len(raw_ads) :
          a # b /\ Get(raw_ads[a], "adArchiveID") = Get(raw_ads[b], "adArchiveID")
    /\ \E a \in 1..Len(raw_ads) : Get(raw_ads[a], "adArchiveID") = Null

\* the first 50 characters of the resolved body text, and the clean preview URL
Creative(text, preview_image_url) ==
    <<Left(text.s, FingerprintLen), get_clean_url(preview_image_url)>>

CreativeOfAd(ad) == Creative(Normalize(ad).text, Normalize(ad).preview_image_url)

CreativeOfGroup(g) == Creative(g.text, g.preview_image_url)

\* C2: two records of a batch with the same first 50 characters of resolved
\* body text and the same clean preview URL are in one group: the returned
\* list has exactly one group of that creative, and it counts every record of
\* the batch that has it.
C2_SameCreativeOneGroup ==
    pc = "processed" =>
        \A a, b \in 1..Len(raw_ads) :
            a # b /\ CreativeOfAd(raw_ads[a]) = CreativeOfAd(raw_ads[b]) =>
                \E p \in 1..Len(processed_ads) :
                    /\ CreativeOfGroup(processed_ads[p]) = CreativeOfAd(raw_ads[a])
                    /\ \A q \in 1..Len(processed_ads) :
                          CreativeOfGroup(processed_ads[q]) = CreativeOfAd(raw_ads[a])
                              => q = p
                    /\ processed_ads[p].intensity >=
                          Cardinality({c \in 1..Len(raw_ads) :
                              CreativeOfAd(raw_ads[c]) = CreativeOfAd(raw_ads[a])})

C2_Witness ==
    /\ pc = "processed"
    /\ \E a, b \in 1..Len(raw_ads) :
          /\ CreativeOfAd(raw_ads[a]) = CreativeOfAd(raw_ads[b])
          /\ Normalize(raw_ads[a]).preview_image_url
                # Normalize(raw_ads[b]).preview_image_url
          /\ Normalize(raw_ads[a]).ad_archive_id # Normalize(raw_ads[b]).ad_archive_id
          /\ Normalize(raw_ads[a]).start_date # Normalize(raw_ads[b]).start_date
          /\ \E p \in 1..Len(processed_ads) :
                /\ CreativeOfGroup(processed_ads[p]) = CreativeOfAd(raw_ads[a])
                /\ processed_ads[p].intensity = 2

\* the index in the batch of the first record with this fingerprint
FirstSeen(key) ==
    CHOOSE a \in 1..Len(raw_ads) :
        /\ Normalize(raw_ads[a]).key = key
        /\ \A b \in 1..(a - 1) : Normalize(raw_ads[b]).key # key

\* C3: the returned list is in descending order of intensity, and of two
\* groups of equal intensity the one whose first record came earlier in the
\* batch comes first.
C3_RankedStable ==
    pc = "processed" =>
        \A p, q \in 1..Len(processed_ads) :
            p < q =>
                \/ processed_ads[p].intensity > processed_ads[q].intensity
                \/ /\ processed_ads[p].intensity = processed_ads[q].intensity
                   /\ FirstSeen(processed_ads[p].key) < FirstSeen(processed_ads[q].key)

C3_Witness ==
    /\ pc = "processed"
    /\ Len(processed_ads) = 3
    /\ \A p \in 1..3 : processed_ads[p].intensity = 1

\* the start date of the group is no date: fromisoformat raises ValueError
Unparseable(g) == ~fromisoformat(ReplaceZ(g.start_date.s)).ok

InList(g, ads) == \E q \in 1..Len(ads) : ads[q] = g

\* C4: under every threshold that is not None, every group whose start date
\* does not parse (empty, absent, malformed) is in the list the filter returns.
C4_UnparseableKept ==
    pc = "filtered" /\ hours # Null =>
        \A p \in 1..Len(processed_ads) :
            Unparseable(processed_ads[p]) => InList(processed_ads[p], filtered_ads)

C4_Witness ==
    /\ pc = "filtered" /\ hours # Null
    /\ Len(filtered_ads) < Len(processed_ads)
    /\ \E p \in 1..Len(processed_ads) :
          Unparseable(processed_ads[p]) /\ processed_ads[p].start_date # EmptyStr
    /\ \E p \in 1..Len(processed_ads) : processed_ads[p].start_date = EmptyStr

\* C5: with hours = None the filter returns its input list: the same groups
\* in the same order.
C5_NoneIsIdentity ==
    pc = "filtered" /\ hours = Null => filtered_ads = processed_ads

C5_Witness ==
    /\ pc = "filtered" /\ hours = Null
    /\ Len(filtered_ads) > 1
    /\ \E p \in 1..Len(filtered_ads) : ~Kept(filtered_ads[p], now - 48)

SnapshotOf(ad) == Or(Get(ad, "snapshot"), EmptyDict)

OriginalText(ad) == Or(Get(Or(Get(SnapshotOf(ad), "body"), EmptyDict), "text"), EmptyStr)

CardsOf(ad) == Or(Get(SnapshotOf(ad), "cards"), EmptyList)

VideosOf(ad) == Or(Get(SnapshotOf(ad), "videos"), EmptyList)

\* the first Card of the record has a body text that is usable
FirstCardUsable(ad) ==
    /\ Truthy(CardsOf(ad))
    /\ Truthy(CardBody(CardsOf(ad).items[1]))
    /\ ~is_template_variable(CardBody(CardsOf(ad).items[1]))

\* C6: the resolved body text of a record is its first Card's body text (the
\* string, or the text of a structured body) when the snapshot body text is
\* empty or a placeholder and that Card body text is non-empty and no
\* placeholder; in every other case it is the snapshot body text.
C6_BodyTextResolution ==
    pc = "processed" /\ Len(raw_ads) = 1 =>
        processed_ads[1].text =
            IF /\ ~Truthy(OriginalText(raw_ads[1]))
                    \/ is_template_variable(OriginalText(raw_ads[1]))
               /\ FirstCardUsable(raw_ads[1])
            THEN CardBody(CardsOf(raw_ads[1]).items[1])
            ELSE OriginalText(raw_ads[1])

C6_Witness ==
    /\ pc = "processed" /\ Len(raw_ads) = 1
    /\ is_template_variable(OriginalText(raw_ads[1]))
    /\ FirstCardUsable(raw_ads[1])
    /\ Get(CardsOf(raw_ads[1]).items[1], "body").t = "dict"
    /\ processed_ads[1].text = CardC

\* a record with two Cards of which only the second has a usable body keeps
\* its placeholder
C6_WitnessSecondCard ==
    /\ pc = "processed" /\ Len(raw_ads) = 1
    /\ is_template_variable(OriginalText(raw_ads[1]))
    /\ Len(CardsOf(raw_ads[1]).items) = 2
    /\ ~FirstCardUsable(raw_ads[1])
    /\ processed_ads[1].text = OriginalText(raw_ads[1])

Field(d, key) == Or(Get(d, key), EmptyStr)

Field2(d, key1, key2) == Or(Or(Get(d, key1), Get(d, key2)), EmptyStr)

\* C7: for a record classified as video, with a Video entry the preview is
\* the first Video's preview image and the secondary URL its HD else its SD
\* URL, Cards ignored; with no Video entry and a Card the secondary URL is the
\* first Card's HD else plain video URL and the preview its video preview
\* image else its original image.
C7_VideoMedia ==
    pc = "processed" /\ Len(raw_ads) = 1 /\ processed_ads[1].is_video =>
        IF Truthy(VideosOf(raw_ads[1]))
        THEN /\ processed_ads[1].preview_image_url
                  = Field(First(VideosOf(raw_ads[1])), "videoPreviewImageUrl")
             /\ processed_ads[1].video_hd_url
                  = Field2(First(VideosOf(raw_ads[1])), "videoHdUrl", "videoSdUrl")
        ELSE Truthy(CardsOf(raw_ads[1])) =>
             /\ processed_ads[1].video_hd_url
                  = Field2(First(CardsOf(raw_ads[1])), "videoHdUrl", "videoUrl")
             /\ processed_ads[1].preview_image_url
                  = Field2(First(CardsOf(raw_ads[1])), "videoPreviewImageUrl",
                           "originalImageUrl")

\* the positions of contents that hold an attached image
Files(c) == {p \in 1..Len(c) : c[p].kind = "file"}

\* the indexes of the text blocks of contents
TextIndexes(c) == {c[p].index : p \in {q \in 1..Len(c) : c[q].kind = "text"}}

\* the preview images of the first five groups that are not videos
SelectedImages(groups) ==
    {groups[p].preview_image_url :
        p \in {q \in 1..Len(groups) :
                 /\ ~groups[q].is_video
                 /\ Cardinality({r \in 1..q : ~groups[r].is_video}) <= TopN}}

C8_WitnessAllFail ==
    /\ pc = "returned" /\ ~request_sent /\ ai_report = Null
    /\ Len(top) > 1
    /\ \A p \in 1..Len(top) : Truthy(top[p].preview_image_url)

\* C9: an analysis is shown on a group only when its index i is a position
\* of the selected subset and the group is the one at position i of it.
C9_AttachedToSelectedGroup ==
    pc = "rendered" =>
        \A pair \in shown :
            /\ pair[2] < Len(top)
            /\ filtered_ads[pair[1] + 1].key = top[pair[2] + 1].key

\* response.text as a string
TextOf(text) == IF text.t = "str" THEN text.s ELSE <<>>

Degraded(report, text) ==
    /\ report.t = "obj"
    /\ Contains(report.overall_analysis.promotion_intel, text)
    /\ report.individual_ads = <<>>

\* C10 as claimed: analyze_with_gemini returns; after an exception the result
\* carries the error text; after a response text that does not parse as JSON
\* once the fences are stripped the result carries that text; both with no
\* individual_ads.
C10_DegradedAsClaimed ==
    pc = "returned" =>
        /\ exc # <<>> => Degraded(ai_report, exc)
        /\ exc = <<>> /\ request_sent /\ result_text.t = "str"
              /\ ~Parses(StripFence(Strip(TextOf(result_text)))) =>
                 /\ Degraded(ai_report, TextOf(result_text))
                 /\ ai_report.overall_analysis.promotion_intel = TextOf(result_text)

\* C10: analyze_with_gemini returns; after an exception the result carries the
\* error text; after a non-empty response text that does not parse as JSON
\* once the fences are stripped the result carries that text, both with no
\* individual_ads; after an empty or absent response text the result is None.
C10_Degraded ==
    pc = "returned" =>
        /\ exc # <<>> => Degraded(ai_report, exc)
        /\ exc = <<>> /\ request_sent /\ Truthy(result_text)
              /\ ~Parses(StripFence(Strip(TextOf(result_text)))) =>
                 /\ Degraded(ai_report, TextOf(result_text))
                 /\ ai_report.overall_analysis.promotion_intel = TextOf(result_text)
        /\ exc = <<>> /\ request_sent /\ ~Truthy(result_text) => ai_report = Null

C10_Witness ==
    /\ pc = "returned" /\ request_sent /\ exc = <<>>
    /\ Contains(TextOf(result_text), FenceJson)
    /\ ~Parses(StripFence(Strip(TextOf(result_text))))
    /\ ai_report = FallbackReport(result_text)

C10_WitnessError ==
    /\ pc = "returned" /\ request_sent /\ exc # <<>>
    /\ ai_report = ErrorReport(exc)

\* C11: in both scan flows, once the acquisition has failed in any way,
\* fetch_ads_from_apify returns the empty list and the scan never gets to
\* process_ads, filter_ads_by_time or analyze_with_gemini: the handler is still
\* at the return of the fetch or done, with no batch, no group and no report.
C11_FailureStopsScan ==
    failure # "" =>
        /\ raw_data = <<>>
        /\ pc \in {"fetch_returned", "done"}
        /\ raw_ads = <<>> /\ Idle

C11_Witness ==
    /\ pc = "done" /\ flow = "brand_library"
    /\ failure = "poll ceiling exceeded"
    /\ raw_data = <<>> /\ processed_ads = <<>>

\* the statuses that end the poll loop
EndStatuses == {SUCCEEDED} \cup FailedStatuses

\* C16: a call of fetch_ads_from_apify that started a run returns; it sends at
\* most 100 status requests and none after one that reported SUCCEEDED, FAILED,
\* ABORTED or TIMED-OUT, nor after a failure; after SUCCEEDED it goes on to the
\* dataset and never reports the poll ceiling; after FAILED, ABORTED or
\* TIMED-OUT, and after 100 polls without such a status, it returns the empty
\* list as a failure.
C16_PollLoopTerminates ==
    /\ [](polls <= max_retries)
    /\ [][(run_status \in EndStatuses \/ failure # "") => (polls' = polls)]_vars
    /\ [](run_status = SUCCEEDED => pc \in {"polled", "fetch_returned"}
                                    /\ failure # "poll ceiling exceeded"
                                    /\ failure # "run failed")
    /\ [](run_status \in FailedStatuses =>
              pc = "fetch_returned" /\ failure = "run failed" /\ raw_data = <<>>)
    /\ [](pc = "polled" /\ run_status # SUCCEEDED =>
              polls = max_retries /\ retry_count = max_retries)
    /\ [](failure = "poll ceiling exceeded" =>
              pc = "fetch_returned" /\ polls = max_retries /\ raw_data = <<>>)
    /\ (pc = "poll") ~> (pc = "fetch_returned")

C16_Witness ==
    /\ pc = "fetch_returned" /\ polls = max_retries
    /\ run_status = SUCCEEDED /\ failure = "" /\ raw_data # <<>>

\* C12: process_ads raises on no batch, whatever is absent, null, empty or
\* malformed in its records: every record is counted in a group of the
\* returned list, and the title and call-to-action of every group are
\* non-empty strings (at worst "Sponsored Ad" and "Learn More").
C12_NeverRaises ==
    /\ pc # "raised"
    /\ pc = "processed" =>
          /\ SumIntensity(processed_ads) = Len(raw_ads)
          /\ \A p \in 1..Len(processed_ads) :
                /\ processed_ads[p].title.t = "str" /\ Truthy(processed_ads[p].title)
                /\ processed_ads[p].cta.t = "str" /\ Truthy(processed_ads[p].cta)
                /\ processed_ads[p].text.t = "str"

\* the fields of a group other than its intensity and its member ids
Rest(g) == [f \in (DOMAIN g) \ {"intensity", "ad_ids"} |-> g[f]]

\* the archive ids of the records of the batch with this fingerprint, in order
RECURSIVE IdsOf(_, _)
IdsOf(batch, key) ==
    IF batch = <<>> THEN <<>>
    ELSE (IF Normalize(Head(batch)).key = key
          THEN <<Normalize(Head(batch)).ad_archive_id>> ELSE <<>>)
         \o IdsOf(Tail(batch), key)

\* C13: a step of the fold on a record whose fingerprint is present adds 1 to
\* the intensity of the group of that fingerprint and appends the record's
\* archive id to its member ids, and changes nothing else: not another field
\* of the group, not another group, not the order.  So every returned group
\* has the fields of the first record of the batch with its fingerprint, and
\* as many member ids as its intensity.
C13_MergeFrame ==
    /\ [][pc = "process" /\ i' = i + 1
              /\ HasKey(grouped_ads, Normalize(raw_ads[i]).key) =>
            /\ Len(grouped_ads') = Len(grouped_ads)
            /\ \A p \in 1..Len(grouped_ads) :
                  IF grouped_ads[p].key = Normalize(raw_ads[i]).key
                  THEN /\ Rest(grouped_ads'[p]) = Rest(grouped_ads[p])
                       /\ grouped_ads'[p].intensity = grouped_ads[p].intensity + 1
                       /\ grouped_ads'[p].ad_ids =
                            Append(grouped_ads[p].ad_ids,
                                   Or(Get(raw_ads[i], "adArchiveID"), EmptyStr))
                  ELSE grouped_ads'[p] = grouped_ads[p]]_vars
    /\ [](pc = "processed" =>
            \A p \in 1..Len(processed_ads) :
                /\ Rest(processed_ads[p])
                     = Rest(Normalize(raw_ads[FirstSeen(processed_ads[p].key)]))
                /\ Len(processed_ads[p].ad_ids) = processed_ads[p].intensity
                /\ processed_ads[p].ad_ids = IdsOf(raw_ads, processed_ads[p].key))

C13_Witness ==
    /\ pc = "processed"
    /\ \E p \in 1..Len(processed_ads), a \in 1..Len(raw_ads) :
          /\ processed_ads[p].intensity = 2
          /\ Normalize(raw_ads[a]).key = processed_ads[p].key
          /\ Normalize(raw_ads[a]).text # processed_ads[p].text
          /\ Normalize(raw_ads[a]).start_date # processed_ads[p].start_date
          /\ processed_ads[p].ad_ids[2] = Normalize(raw_ads[a]).ad_archive_id

Open == <<"{", "{">>
Close == <<"}", "}">>

\* the text has a "{{" with a "}}" after it
OpenThenClose(s) ==
    \E p, q \in 1..Len(s) :
        /\ p + 2 <= q /\ q + 1 <= Len(s)
        /\ SubSeq(s, p, p + 1) = Open /\ SubSeq(s, q, q + 1) = Close

\* C14: a text is taken for a template placeholder only when it has a "{{"
\* with a "}}" after it; a snapshot body text that has a "{{" and no "}}" after
\* it is no placeholder and is the resolved body text of the record, whatever
\* its Cards hold.
C14_PlaceholderNeedsLaterClose ==
    pc = "processed" /\ Len(raw_ads) = 1 =>
        /\ is_template_variable(OriginalText(raw_ads[1]))
              => OpenThenClose(OriginalText(raw_ads[1]).s)
        /\ Contains(OriginalText(raw_ads[1]).s, Open)
              /\ ~OpenThenClose(OriginalText(raw_ads[1]).s)
              => processed_ads[1].text = OriginalText(raw_ads[1])

\* what the start date of a group parses to
ParsedDate(g) == fromisoformat(ReplaceZ(g.start_date.s))

====
